---- MODULE Spec2Model ----
(***************************************************************************)
(* A model of app.py, the NBA lineup chatbot: the cached table load, the   *)
(* four summaries, the context assembled by ask, the external call and the *)
(* Streamlit script run around them.                                       *)
(*                                                                         *)
(* Numbers are fixed point, in thousandths: 50000 is 50.0, 150004 is       *)
(* 150.004.  A missing value (pandas NaN) and infinity are distinguished   *)
(* numbers, so that comparisons stay total; every operator tests for them  *)
(* before it computes.                                                     *)
(***************************************************************************)
EXTENDS Integers, Sequences, FiniteSets, TLC

VARIABLES
    file,        \* nba_5man_lineups_features.csv: readable, cols, rows (raw cells)
    observed,    \* the installed pandas' default for groupby(observed=...)
    cache,       \* st.cache_data's entry for load_data: <<>> or <<table>>
    reads,       \* how many times pd.read_csv was called
    builds,      \* how many times load_data returned a table
    runs,        \* script runs so far
    pc,          \* position of the script run: idle, load, button, preview
    pressed,     \* this run was triggered by the Ask button
    buttonShown, \* the page currently shows the Ask button
    df,          \* the module's df: <<>> or <<table>>
    shown,       \* what the page shows for this run
    context,     \* the context assembled by the last ask: <<>> or <<record>>
    createCalls, \* calls of client.responses.create
    requests,    \* requests the client sent to the API
    presses,     \* Ask presses
    extFailed,   \* ask calls that ended in an exception of the client
    args,        \* arguments of the last direct call of top_lineups_preview
    out          \* its result: <<>> or <<rows>>

vars == <<file, observed, cache, reads, builds, runs, pc, pressed, buttonShown,
          df, shown, context, createCalls, requests, presses, extFailed, args, out>>

----------------------------------------------------------------------------
(* Values *)

NaN == -999999999
PosInf == 999999999
\* a cell whose text is not a number ("abc"), before pd.to_numeric
NotANumber == -999999998
\* a missing minute_bucket
NoBucket == "<NA>"

\* pd.isna of a cell of column c (minute_bucket holds labels, not numbers)
isna(c, x) == IF c = "minute_bucket" THEN x = NoBucket ELSE x = NaN

Raise(e) == [raised |-> e, value |-> <<>>]
Return(v) == [raised |-> "", value |-> <<v>>]

RECURSIVE SumSeq(_)
SumSeq(s) == IF s = <<>> THEN 0 ELSE Head(s) + SumSeq(Tail(s))

NotMissing(x) == x # NaN

\* Series.mean(): missing values are skipped; the mean of nothing is NaN.
\* The mean is kept exact, as a fraction.
mean(vals) ==
    LET nn == SelectSeq(vals, NotMissing)
    IN  IF nn = <<>> THEN [num |-> NaN, den |-> 1]
        ELSE IF \E i \in 1..Len(nn) : nn[i] = PosInf THEN [num |-> PosInf, den |-> 1]
        ELSE [num |-> SumSeq(nn), den |-> Len(nn)]

\* round(): to the nearest multiple of q thousandths, a tie to the even
\* multiple; NaN and infinity stay.
round(r, q) ==
    IF r.num = NaN \/ r.num = PosInf THEN r.num
    ELSE LET m == q * r.den
             k == r.num \div m
             rest == r.num - k * m
         IN  IF 2 * rest < m THEN k * q
             ELSE IF 2 * rest > m THEN (k + 1) * q
             ELSE IF k % 2 = 0 THEN k * q ELSE (k + 1) * q

round_number(x, q) == round([num |-> x, den |-> 1], q)

----------------------------------------------------------------------------
(* load_data *)

NumericCols == {"min", "net_rating", "off_rating", "def_rating", "pace"}

to_numeric(x) == IF x = NotANumber THEN NaN ELSE x

bins == <<0, 50000, 100000, 200000, 400000, PosInf>>
labels == <<"0-50", "50-100", "100-200", "200-400", "400+">>

\* pd.cut(..., right=True), the library's default: intervals closed on the
\* high end
cut_right_closed(x) ==
    IF x = NaN THEN NoBucket
    ELSE LET ids == Cardinality({i \in 1..Len(bins) : bins[i] < x})
         IN  IF ids = 0 \/ ids = Len(bins) THEN NoBucket ELSE labels[ids]

\* pd.cut(x, bins, labels, right=False): the number of edges <= x picks the
\* label; below the first edge or not below the last one there is none.
cut(x) ==
    IF x = NaN THEN NoBucket
    ELSE LET ids == Cardinality({i \in 1..Len(bins) : bins[i] <= x})
         IN  IF ids = 0 \/ ids = Len(bins) THEN NoBucket ELSE labels[ids]

coerce(f) ==
    [i \in 1..Len(f.rows) |->
        [c \in f.cols |-> IF c \in NumericCols THEN to_numeric(f.rows[i][c])
                          ELSE f.rows[i][c]]]

\* a load_data that checks for the columns group_name and min
load_data_strict(f) ==
    IF ~f.readable THEN Raise("read_csv")
    ELSE IF ~({"group_name", "min"} \subseteq f.cols) THEN Raise("missing column")
    ELSE IF "minute_bucket" \in f.cols
         THEN Return([cols |-> f.cols, rows |-> coerce(f), categorical |-> FALSE])
         ELSE Return([cols |-> f.cols \cup {"minute_bucket"},
                      rows |-> [i \in 1..Len(f.rows) |->
                                 [c \in f.cols \cup {"minute_bucket"} |->
                                    IF c = "minute_bucket" THEN cut(coerce(f)[i]["min"])
                                    ELSE coerce(f)[i][c]]],
                      categorical |-> TRUE])

load_data(f) ==
    IF ~f.readable THEN Raise("read_csv")
    ELSE IF "minute_bucket" \in f.cols
         THEN Return([cols |-> f.cols, rows |-> coerce(f), categorical |-> FALSE])
    ELSE IF "min" \notin f.cols THEN Raise("KeyError: min")
    ELSE Return([cols |-> f.cols \cup {"minute_bucket"},
                 rows |-> [i \in 1..Len(f.rows) |->
                            [c \in f.cols \cup {"minute_bucket"} |->
                               IF c = "minute_bucket" THEN cut(coerce(f)[i]["min"])
                               ELSE coerce(f)[i][c]]],
                 categorical |-> TRUE])

----------------------------------------------------------------------------
(* The summaries.  Each returns Return(view) or Raise(error). *)

Col(rows, c) == [i \in 1..Len(rows) |-> rows[i][c]]

\* Series.count(): the cells that are not missing
count(vals) == Len(SelectSeq(vals, NotMissing))

\* DataFrame size of a group, whatever the cells hold
count_rows(vals) == Len(vals)

\* the labels as strings sort (groupby sorts the keys of an object column)
ObjectOrder == <<"0-50", "100-200", "200-400", "400+", "50-100">>

\* groupby("minute_bucket"): rows with a missing key are dropped; a
\* categorical key gives its groups in category order, all categories unless
\* observed; an object key gives the keys present, sorted.
group_keys(t, rows, obs) ==
    LET present == {rows[i]["minute_bucket"] : i \in 1..Len(rows)} \ {NoBucket}
        Kept(k) == k \in present \/ (t.categorical /\ ~obs)
    IN  SelectSeq(IF t.categorical THEN labels ELSE ObjectOrder, Kept)

group(rows, k) ==
    LET In(r) == r["minute_bucket"] = k IN SelectSeq(rows, In)

dropna(rows, subset) ==
    LET Full(r) == \A c \in subset : ~isna(c, r[c]) IN SelectSeq(rows, Full)

overall_summary(t) ==
    IF "net_rating" \notin t.cols THEN Raise("KeyError: net_rating")
    ELSE IF "min" \notin t.cols THEN Raise("KeyError: min")
    ELSE Return([total_lineups |-> Len(t.rows),
                 avg_net_rating |-> round(mean(Col(t.rows, "net_rating")), 10),
                 avg_minutes |-> round(mean(Col(t.rows, "min")), 100)])

\* a bucket_summary whose lineups is the size of the group
bucket_summary_size(t, obs) ==
    IF "minute_bucket" \notin t.cols THEN Raise("KeyError: minute_bucket")
    ELSE IF "net_rating" \notin t.cols THEN Raise("KeyError: net_rating")
    ELSE IF "min" \notin t.cols THEN Raise("KeyError: min")
    ELSE LET keys == group_keys(t, t.rows, obs)
         IN  Return([i \in 1..Len(keys) |->
                [minute_bucket |-> keys[i],
                 lineups |-> count_rows(Col(group(t.rows, keys[i]), "net_rating")),
                 avg_net_rating |->
                     round(mean(Col(group(t.rows, keys[i]), "net_rating")), 10),
                 avg_minutes |-> round(mean(Col(group(t.rows, keys[i]), "min")), 100)]])

bucket_summary(t, obs) ==
    IF "minute_bucket" \notin t.cols THEN Raise("KeyError: minute_bucket")
    ELSE IF "net_rating" \notin t.cols THEN Raise("KeyError: net_rating")
    ELSE IF "min" \notin t.cols THEN Raise("KeyError: min")
    ELSE LET keys == group_keys(t, t.rows, obs)
         IN  Return([i \in 1..Len(keys) |->
                [minute_bucket |-> keys[i],
                 lineups |-> count(Col(group(t.rows, keys[i]), "net_rating")),
                 avg_net_rating |->
                     round(mean(Col(group(t.rows, keys[i]), "net_rating")), 10),
                 avg_minutes |-> round(mean(Col(group(t.rows, keys[i]), "min")), 100)]])

\* a pace_offense_summary that answers with no rows when a column is absent
pace_offense_summary_lenient(t, obs) ==
    IF ~({"minute_bucket", "pace", "off_rating"} \subseteq t.cols)
    THEN Return(<<>>)
    ELSE LET kept == dropna(t.rows, {"minute_bucket", "pace", "off_rating"})
             keys == group_keys(t, kept, obs)
         IN  Return([i \in 1..Len(keys) |->
                [minute_bucket |-> keys[i],
                 lineups |-> count(Col(group(kept, keys[i]), "off_rating")),
                 avg_pace |-> round(mean(Col(group(kept, keys[i]), "pace")), 10),
                 avg_off_rating |->
                     round(mean(Col(group(kept, keys[i]), "off_rating")), 10)]])

\* a pace_offense_summary that does not drop the rows without off_rating
\* and counts the pace cells
pace_offense_summary_keep(t, obs) ==
    IF ~({"minute_bucket", "pace", "off_rating"} \subseteq t.cols)
    THEN Raise("KeyError")
    ELSE LET kept == dropna(t.rows, {"minute_bucket", "pace"})
             keys == group_keys(t, kept, obs)
         IN  Return([i \in 1..Len(keys) |->
                [minute_bucket |-> keys[i],
                 lineups |-> count(Col(group(kept, keys[i]), "pace")),
                 avg_pace |-> round(mean(Col(group(kept, keys[i]), "pace")), 10),
                 avg_off_rating |->
                     round(mean(Col(group(kept, keys[i]), "off_rating")), 10)]])

pace_offense_summary(t, obs) ==
    IF ~({"minute_bucket", "pace", "off_rating"} \subseteq t.cols)
    THEN Raise("KeyError")
    ELSE LET kept == dropna(t.rows, {"minute_bucket", "pace", "off_rating"})
             keys == group_keys(t, kept, obs)
         IN  Return([i \in 1..Len(keys) |->
                [minute_bucket |-> keys[i],
                 lineups |-> count(Col(group(kept, keys[i]), "off_rating")),
                 avg_pace |-> round(mean(Col(group(kept, keys[i]), "pace")), 10),
                 avg_off_rating |->
                     round(mean(Col(group(kept, keys[i]), "off_rating")), 10)]])

----------------------------------------------------------------------------
(* top_lineups_preview *)

ProjCols == {"group_name", "min", "pace", "net_rating", "off_rating",
             "def_rating", "minute_bucket"}

\* df[df["min"] >= min_minutes].dropna(subset=["net_rating"]): the row
\* labels kept; a comparison with NaN is false
qualifying(t, min_minutes) ==
    {i \in 1..Len(t.rows) :
        /\ t.rows[i]["min"] # NaN
        /\ t.rows[i]["min"] >= min_minutes
        /\ t.rows[i]["net_rating"] # NaN}

Perms(S) ==
    {s \in [1..Cardinality(S) -> S] :
        \A i, j \in 1..Cardinality(S) : i # j => s[i] # s[j]}

\* sort_values(ascending=True)
sort_values_ascending(t, S) ==
    {s \in Perms(S) :
        \A i \in 1..(Cardinality(S) - 1) :
            t.rows[s[i]]["net_rating"] <= t.rows[s[i + 1]]["net_rating"]}

\* sort_values("net_rating", ascending=False) with the default kind,
\* quicksort, which is not stable: every non-increasing arrangement of the
\* rows is a possible outcome.
sort_values(t, S) ==
    {s \in Perms(S) :
        \A i \in 1..(Cardinality(S) - 1) :
            t.rows[s[i]]["net_rating"] >= t.rows[s[i + 1]]["net_rating"]}

Min(a, b) == IF a <= b THEN a ELSE b
Max(a, b) == IF a >= b THEN a ELSE b

\* head(n): the first n rows; for a negative n all but the last -n
head(s, n) ==
    IF n >= 0 THEN SubSeq(s, 1, Min(n, Len(s)))
    ELSE SubSeq(s, 1, Max(0, Len(s) + n))

\* the rounding loop, on the rows of out: idx is the row label kept from df
rounded(t, i) ==
    [idx |-> i,
     row |-> [c \in ProjCols \cap t.cols |->
                IF c \in NumericCols THEN round_number(t.rows[i][c], 10)
                ELSE t.rows[i][c]]]

\* a preview that cuts to n rows before it sorts
top_lineups_preview_cut_first(t, n, min_minutes) ==
    IF "min" \notin t.cols THEN {Raise("KeyError: min")}
    ELSE IF "net_rating" \notin t.cols THEN {Raise("KeyError: net_rating")}
    ELSE LET q == qualifying(t, min_minutes)
             first == {i \in q : Cardinality({j \in q : j < i}) < n}
         IN  {Return([k \in 1..Len(s) |-> rounded(t, s[k])]) : s \in sort_values(t, first)}

\* a preview that sorts ascending
top_lineups_preview_ascending(t, n, min_minutes) ==
    IF "min" \notin t.cols THEN {Raise("KeyError: min")}
    ELSE IF "net_rating" \notin t.cols THEN {Raise("KeyError: net_rating")}
    ELSE {Return([k \in 1..Len(head(s, n)) |-> rounded(t, s[k])]) :
             s \in sort_values_ascending(t, qualifying(t, min_minutes))}

\* The possible results of top_lineups_preview(n, min_minutes).
top_lineups_preview(t, n, min_minutes) ==
    IF "min" \notin t.cols THEN {Raise("KeyError: min")}
    ELSE IF "net_rating" \notin t.cols THEN {Raise("KeyError: net_rating")}
    ELSE {Return([k \in 1..Len(head(s, n)) |-> rounded(t, s[k])]) :
             s \in sort_values(t, qualifying(t, min_minutes))}

\* the rounding loop writing into df's own rows
table_rounded_in_place(t, o) ==
    [t EXCEPT !.rows =
        [i \in 1..Len(t.rows) |->
            IF \E k \in 1..Len(o) : o[k].idx = i
            THEN [c \in t.cols |->
                    IF c \in NumericCols THEN round_number(t.rows[i][c], 10)
                    ELSE t.rows[i][c]]
            ELSE t.rows[i]]]

\* df after top_lineups_preview returned o: the boolean selection, dropna,
\* sort_values, loc and head each build a new frame, and the rounding loop
\* assigns to out's columns, so df keeps its rows.
table_after_preview(t, o) == t

----------------------------------------------------------------------------
(* ask: the context *)

\* DataFrame.to_string(index=False): a frame without rows prints as
\* "Empty DataFrame", with its column names
to_string(view) ==
    IF view = <<>> THEN [text |-> "Empty DataFrame", rows |-> <<>>]
    ELSE [text |-> "rows", rows |-> view]

\* The possible outcomes of the f-string of ask: the four summaries are
\* evaluated in order and the first error ends it.
context_of(t, obs) ==
    LET o == overall_summary(t)
        b == bucket_summary(t, obs)
        p == pace_offense_summary(t, obs)
    IN  IF o.raised # "" THEN {Raise(o.raised)}
        ELSE IF b.raised # "" THEN {Raise(b.raised)}
        ELSE IF p.raised # "" THEN {Raise(p.raised)}
        ELSE {IF x.raised # "" THEN Raise(x.raised)
              ELSE Return([overall |-> o.value[1],
                           bucket |-> to_string(b.value[1]),
                           pace |-> to_string(p.value[1]),
                           top |-> to_string([k \in 1..Len(x.value[1]) |->
                                                 x.value[1][k].row]),
                           topidx |-> [k \in 1..Len(x.value[1]) |-> x.value[1][k].idx]])
              : x \in top_lineups_preview(t, 15, 100000)}

----------------------------------------------------------------------------
(* The source file *)

MaxRows == 2
TopRows == 3
AppRows == 1
MaxRuns == 3
MaxN == 2

AllCols == {"group_name", "min", "net_rating", "off_rating", "def_rating", "pace"}

RawRow(m, nr, orr, p, mb) ==
    [group_name |-> "lineup", min |-> m, net_rating |-> nr, off_rating |-> orr,
     def_rating |-> 112500, pace |-> p, minute_bucket |-> mb]

SeqsUpTo(S, k) == UNION {[1..m -> S] : m \in 0..k}

Unreadable == [readable |-> FALSE, cols |-> {}, rows |-> <<>>]

\* The files with the columns of one of colsets and up to k rows of rowDom
Files(colsets, rowDom, k) ==
    {[readable |-> TRUE, cols |-> cs,
      rows |-> [i \in 1..Len(s) |-> [c \in cs |-> s[i][c]]]] :
        cs \in colsets, s \in SeqsUpTo(rowDom, k)}

\* the columns of the file: all, all but one, and each with or without a
\* minute_bucket column of its own
WithoutOne == {AllCols} \cup {AllCols \ {c} : c \in AllCols \ {"def_rating"}}
ColSets == WithoutOne \cup {cs \cup {"minute_bucket"} : cs \in {AllCols, AllCols \ {"min"}}}

\* rows of the summaries' checks
SummaryRows ==
    {RawRow(m, nr, po[1], po[2], mb) :
        m \in {NotANumber, 60000, 150004}, nr \in {NaN, 1000},
        po \in {<<110125, 98250>>, <<NaN, 98250>>, <<110125, NaN>>},
        mb \in {"100-200"}}

\* rows of the application's runs
AppRowSet ==
    {RawRow(m, nr, orr, 98250, mb) :
        m \in {NotANumber, 150004}, nr \in {NaN, 1000}, orr \in {NaN, 110125},
        mb \in {NoBucket, "100-200"}}

\* rows of the checks of the bucket boundaries
CutRows ==
    {RawRow(m, 1000, 110125, 98250, NoBucket) :
        m \in {NotANumber, NaN, -1, 0, 49999, 50000, 100000, 200000, 399999,
               400000, PosInf}}

\* rows of the checks of top_lineups_preview
TopRowSet ==
    {RawRow(m, nr, 110125, 98250, NoBucket) :
        m \in {NaN, 100004, 150000}, nr \in {NaN, 1000, 2000}}

MinMinutes == {100000, 100004, 150000}

----------------------------------------------------------------------------
(* The script run *)

Start(f) ==
    /\ file = f
    /\ observed \in BOOLEAN
    /\ cache = <<>>
    /\ reads = 0
    /\ builds = 0
    /\ runs = 0
    /\ pc = "idle"
    /\ pressed = FALSE
    /\ buttonShown = FALSE
    /\ df = <<>>
    /\ shown = ""
    /\ context = <<>>
    /\ createCalls = 0
    /\ requests = 0
    /\ presses = 0
    /\ extFailed = 0
    /\ args = <<>>
    /\ out = <<>>

Init == \E f \in Files(ColSets, AppRowSet, AppRows) \cup {Unreadable} : Start(f)

\* A script run starts: the page is opened or reloaded, or Ask is pressed
\* on a page that shows the button.
ScriptRun ==
    /\ pc = "idle"
    /\ runs < MaxRuns
    /\ \E press \in BOOLEAN :
        /\ press => buttonShown
        /\ pressed' = press
        /\ presses' = presses + (IF press THEN 1 ELSE 0)
    /\ runs' = runs + 1
    /\ pc' = "load"
    /\ shown' = ""
    /\ buttonShown' = FALSE
    /\ UNCHANGED <<file, observed, cache, reads, builds, df, context, createCalls,
                   requests, extFailed, args, out>>

\* load_data without st.cache_data: nothing is ever found
no_cache(c) == <<>>

\* st.cache_data's lookup of load_data(): the stored table, if any
cached_value(c) == c

\* df = load_data(), the entry is there: the stored table is handed out
LoadDataHit ==
    /\ pc = "load"
    /\ cached_value(cache) # <<>>
    /\ df' = cached_value(cache)
    /\ pc' = "button"
    /\ UNCHANGED <<file, observed, cache, reads, builds, runs, pressed, buttonShown,
                   shown, context, createCalls, requests, presses, extFailed, args, out>>

\* df = load_data(), no entry: the function runs; its table is stored, its
\* exception is not, and ends the script run with the error on the page
LoadDataMiss ==
    /\ pc = "load"
    /\ cached_value(cache) = <<>>
    /\ reads' = reads + 1
    /\ LET r == load_data(file)
       IN  IF r.raised = ""
           THEN /\ cache' = r.value
                /\ df' = r.value
                /\ builds' = builds + 1
                /\ pc' = "button"
                /\ shown' = shown
           ELSE /\ shown' = "DataLoadError"
                /\ pc' = "idle"
                /\ UNCHANGED <<cache, df, builds>>
    /\ UNCHANGED <<file, observed, runs, pressed, buttonShown, context, createCalls,
                   requests, presses, extFailed, args, out>>

\* OpenAI(api_key=...): the client keeps the library's default max_retries
max_retries == 2

Outcomes == {"ok", "unreachable", "rejected", "error_status"}
Retried == {"unreachable", "error_status"}

\* The requests one client.responses.create sends before it returns or
\* raises outcome o: a connection error or an error status is sent again, up
\* to max_retries times; an answer or a rejected credential ends it.
Attempts(o) == IF o \in Retried THEN {1 + max_retries} ELSE 1..(1 + max_retries)

\* an ask that calls again when the call failed
create_calls_retry(o) == IF o = "ok" THEN 1 ELSE 2

\* the calls of client.responses.create in one ask
create_calls(o) == 1

\* if st.button("Ask"), not pressed: the script goes on to the preview
NoAsk ==
    /\ pc = "button"
    /\ ~pressed
    /\ buttonShown' = TRUE
    /\ pc' = "preview"
    /\ UNCHANGED <<file, observed, cache, reads, builds, runs, pressed, df, shown,
                   context, createCalls, requests, presses, extFailed, args, out>>

\* if st.button("Ask"), pressed: answer = ask(question).  An exception of a
\* summary or of the client ends the script run, with the error on the page
\* and the button still there.
Ask ==
    /\ pc = "button"
    /\ pressed
    /\ buttonShown' = TRUE
    /\ \E c \in context_of(df[1], observed) :
        IF c.raised # ""
        THEN /\ shown' = c.raised
             /\ pc' = "idle"
             /\ UNCHANGED <<df, context, createCalls, requests, extFailed>>
        ELSE /\ context' = c.value
             /\ df' = <<table_after_preview(df[1], [k \in 1..Len(c.value[1].topidx) |->
                                                      [idx |-> c.value[1].topidx[k]]])>>
             /\ \E o \in Outcomes :
                 /\ createCalls' = createCalls + create_calls(o)
                 /\ \E k \in Attempts(o) : requests' = requests + k
                 /\ IF o = "ok"
                    THEN /\ shown' = "Answer"
                         /\ pc' = "preview"
                         /\ extFailed' = extFailed
                    ELSE /\ shown' = "ExternalCallError"
                         /\ pc' = "idle"
                         /\ extFailed' = extFailed + 1
    /\ UNCHANGED <<file, observed, cache, reads, builds, runs, pressed, presses,
                   args, out>>

\* st.dataframe(df.head()): the end of the script
Preview ==
    /\ pc = "preview"
    /\ pc' = "idle"
    /\ UNCHANGED <<file, observed, cache, reads, builds, runs, pressed, buttonShown,
                   df, shown, context, createCalls, requests, presses, extFailed,
                   args, out>>

Next == ScriptRun \/ LoadDataHit \/ LoadDataMiss \/ NoAsk \/ Ask \/ Preview

Spec == Init /\ [][Next]_vars

----------------------------------------------------------------------------
(* The checks of load_data's buckets: the application on files whose min   *)
(* cells lie on and around the edges.                                      *)

InitCut == \E f \in Files({AllCols}, CutRows, MaxRows) : Start(f) /\ observed

SpecCut == InitCut /\ [][Next]_vars

----------------------------------------------------------------------------
(* The checks of the summaries: ask on every loaded table, from the state  *)
(* of a run that Ask started and that has reached the button.              *)

AtButton(f) ==
    /\ file = f
    /\ observed \in BOOLEAN
    /\ load_data(f).raised = ""
    /\ cache = load_data(f).value
    /\ df = load_data(f).value
    /\ reads = 1
    /\ builds = 1
    /\ runs = 2
    /\ pc = "button"
    /\ pressed = TRUE
    /\ buttonShown = FALSE
    /\ shown = ""
    /\ context = <<>>
    /\ createCalls = 0
    /\ requests = 0
    /\ presses = 1
    /\ extFailed = 0
    /\ args = <<>>
    /\ out = <<>>

InitAsk == \E f \in Files(ColSets, SummaryRows, MaxRows) : AtButton(f)

NextAsk == Ask \/ Preview

SpecAsk == InitAsk /\ [][NextAsk]_vars

----------------------------------------------------------------------------
(* The checks of top_lineups_preview: calls with any n and min_minutes on  *)
(* every loaded table.                                                     *)

InitTop ==
    \E f \in Files({AllCols}, TopRowSet, TopRows) :
        /\ AtButton(f)
        /\ observed

\* out = top_lineups_preview(n, min_minutes)
TopLineupsPreview ==
    /\ pc = "button"
    /\ args = <<>>
    /\ \E n \in (-1)..MaxN, mm \in MinMinutes :
        \E r \in top_lineups_preview(df[1], n, mm) :
            /\ r.raised = ""
            /\ args' = <<[n |-> n, min_minutes |-> mm]>>
            /\ out' = r.value[1]
            /\ df' = <<table_after_preview(df[1], r.value[1])>>
    /\ UNCHANGED <<file, observed, cache, reads, builds, runs, pc, pressed,
                   buttonShown, shown, context, createCalls, requests, presses,
                   extFailed>>

SpecTop == InitTop /\ [][TopLineupsPreview]_vars

----------------------------------------------------------------------------
(* Claims *)

Rows == IF df = <<>> THEN <<>> ELSE df[1].rows

\* the label of the range [lo, hi) that holds m, written out
RangeLabel(m) ==
    CASE m < 50000 -> "0-50"
      [] m >= 50000 /\ m < 100000 -> "50-100"
      [] m >= 100000 /\ m < 200000 -> "100-200"
      [] m >= 200000 /\ m < 400000 -> "200-400"
      [] OTHER -> "400+"

Derived == df # <<>> /\ df[1].categorical

\* C1, as stated: in a derived minute_bucket every row whose min is a
\* number >= 0 has the label of its range, low end closed, and a row
\* without a bucket has a missing min.
C1_Original ==
    Derived =>
        \A i \in 1..Len(Rows) :
            LET m == Rows[i]["min"]
                b == Rows[i]["minute_bucket"]
            IN  /\ (m # NaN /\ m >= 0) => b = RangeLabel(m)
                /\ b = NoBucket => m = NaN

\* C1, amended: in a derived minute_bucket every row whose min is a finite
\* number >= 0 has exactly the label of its range, low end closed (50 is in
\* 50-100, 0 in 0-50, 400 in 400+); a row has no bucket exactly when its
\* min is missing, negative or infinite.
C1_Buckets ==
    Derived =>
        \A i \in 1..Len(Rows) :
            LET m == Rows[i]["min"]
                b == Rows[i]["minute_bucket"]
            IN  /\ (m # NaN /\ m >= 0 /\ m # PosInf) => b = RangeLabel(m)
                /\ b = NoBucket <=> (m = NaN \/ m < 0 \/ m = PosInf)

C1_Witness ==
    /\ Derived
    /\ Len(Rows) = 2
    /\ Rows[1]["min"] = 50000 /\ Rows[1]["minute_bucket"] = "50-100"
    /\ Rows[2]["min"] = 400000 /\ Rows[2]["minute_bucket"] = "400+"

Called == args # <<>> /\ args[1].n >= 0

NonIncreasing(o) ==
    \A k \in 1..(Len(o) - 1) : o[k].row["net_rating"] >= o[k + 1].row["net_rating"]

\* C2, as stated: top_lineups_preview(n, min_minutes), n >= 0, returns at
\* most n rows, no row with min < min_minutes or with a missing min or
\* net_rating, in non-increasing order of net_rating.
C2_Original ==
    Called =>
        /\ Len(out) <= args[1].n
        /\ \A k \in 1..Len(out) :
            /\ out[k].row["min"] # NaN
            /\ out[k].row["min"] >= args[1].min_minutes
            /\ out[k].row["net_rating"] # NaN
        /\ NonIncreasing(out)

\* C2, amended: it returns at most n rows, each of a table row whose min is
\* not missing and >= min_minutes and whose net_rating is not missing, in
\* non-increasing order of net_rating; the min a returned row shows is
\* rounded to 2 decimals, so it is >= min_minutes rounded to 2 decimals and
\* may be below min_minutes itself.
C2_AtMostNFilteredSorted ==
    Called =>
        /\ Len(out) <= args[1].n
        /\ \A k \in 1..Len(out) :
            /\ Rows[out[k].idx]["min"] # NaN
            /\ Rows[out[k].idx]["min"] >= args[1].min_minutes
            /\ Rows[out[k].idx]["net_rating"] # NaN
            /\ out[k].row["min"] # NaN
            /\ out[k].row["min"] >= round_number(args[1].min_minutes, 10)
            /\ out[k].row["net_rating"] # NaN
        /\ NonIncreasing(out)

C2_Witness ==
    /\ Called
    /\ args[1].n = 2
    /\ Len(out) = 2
    /\ Len(Rows) = 3
    /\ \E i \in 1..3 : Rows[i]["min"] = NaN \/ Rows[i]["min"] < args[1].min_minutes
    /\ out[1].row["net_rating"] > out[2].row["net_rating"]

Counted(i) == Rows[i]["net_rating"] # NaN

BucketCountSum == SumSeq([k \in 1..Len(context[1].bucket.rows) |->
                              context[1].bucket.rows[k].lineups])

\* C3, as stated: the lineups counts of bucket_summary sum to the number of
\* rows of the table whose net_rating is not missing.
C3_Original ==
    context # <<>> =>
        BucketCountSum = Cardinality({i \in 1..Len(Rows) : Counted(i)})

\* C3, amended: the lineups counts of bucket_summary sum to the number of
\* rows of the table whose net_rating and minute_bucket are both not
\* missing.
C3_CountsSum ==
    context # <<>> =>
        BucketCountSum =
            Cardinality({i \in 1..Len(Rows) :
                            Counted(i) /\ Rows[i]["minute_bucket"] # NoBucket})

C3_Witness ==
    /\ context # <<>>
    /\ Len(Rows) = 2
    /\ BucketCountSum = 1
    /\ Counted(1) /\ Rows[1]["minute_bucket"] # NoBucket
    /\ Counted(2) /\ Rows[2]["minute_bucket"] = NoBucket

\* C4, as stated: however many times the table is requested, the source
\* file is read exactly once.
C4_Original == (runs >= 1 /\ pc # "load") => reads = 1

\* C4, amended: the table is built at most once; once a load has succeeded
\* the source file has been read exactly once and is never read again, and
\* every later request gets the stored table; a load that fails stores
\* nothing, so the next request reads the source again.
C4_LoadOnce ==
    /\ builds <= 1
    /\ cache # <<>> => (reads = 1 /\ builds = 1)
    /\ cache = <<>> => (builds = 0 /\ df = <<>>)
    /\ df # <<>> => df = cache
    /\ (cache = <<>> /\ pc = "idle") => reads = runs

C4_Witness ==
    /\ runs = MaxRuns
    /\ presses >= 1
    /\ pc = "button"
    /\ reads = 1
    /\ df # <<>>

Needed == {"net_rating", "min", "pace", "off_rating"}

Asked == presses >= 1 /\ shown # "" /\ df # <<>>

AllZero(view) ==
    \A k \in 1..Len(view.rows) : view.rows[k].lineups = 0

\* C5, as stated: on a table that is empty or lacks a column a summary
\* needs, the summary returns an empty result instead of failing, so ask
\* gets its four summaries.
C5_Original ==
    (Asked /\ (Rows = <<>> \/ ~(Needed \subseteq df[1].cols))) => context # <<>>

\* C5, amended: on an empty table with the columns net_rating, min, pace
\* and off_rating no summary fails: overall_summary gives a count of 0 and
\* missing means, the grouped summaries give no row with a count above 0,
\* top_lineups_preview gives no row; on a table that lacks one of those
\* columns a summary raises KeyError and ask has no context and no answer.
C5_EmptyOrKeyError ==
    Asked =>
        /\ context = <<>> <=> ~(Needed \subseteq df[1].cols)
        /\ context = <<>> =>
              shown \in {"KeyError: net_rating", "KeyError: min", "KeyError"}
        /\ (context # <<>> /\ Rows = <<>>) =>
              /\ context[1].overall =
                   [total_lineups |-> 0, avg_net_rating |-> NaN, avg_minutes |-> NaN]
              /\ AllZero(context[1].bucket)
              /\ AllZero(context[1].pace)
              /\ context[1].top = [text |-> "Empty DataFrame", rows |-> <<>>]

C5_Witness ==
    /\ Asked
    /\ Rows = <<>>
    /\ context # <<>>
    /\ context[1].top.text = "Empty DataFrame"

Loadable(f) == f.readable /\ ("min" \in f.cols \/ "minute_bucket" \in f.cols)

\* C6, as stated: a file that is unreadable or lacks group_name or min,
\* with or without a minute_bucket column, never gives a table.
C6_Original ==
    (~file.readable \/ ~({"group_name", "min"} \subseteq file.cols)) =>
        (cache = <<>> /\ df = <<>>)

\* C6, amended: load_data fails exactly when the source file is unreadable
\* or has neither a min nor a minute_bucket column; then no table is
\* produced, the run ends with the error and no summary or question is
\* served.  A file without group_name, or without min but with
\* minute_bucket, loads.
C6_LoadFailure ==
    /\ reads > 0 => (cache # <<>> <=> Loadable(file))
    /\ ~Loadable(file) =>
          /\ df = <<>>
          /\ context = <<>>
          /\ ~buttonShown
          /\ presses = 0
          /\ createCalls = 0
          /\ (runs > 0 /\ pc = "idle") => shown = "DataLoadError"

C6_Witness ==
    /\ file.readable
    /\ "min" \notin file.cols
    /\ "minute_bucket" \notin file.cols
    /\ runs = 2
    /\ pc = "idle"
    /\ shown = "DataLoadError"

Called1 == shown' \in {"Answer", "ExternalCallError"}

\* C7, as stated: one external call per Ask press.
C7_Original == requests <= presses

\* C7, amended: when the external call of an Ask press fails, the error is
\* shown for that run, ask has called client.responses.create exactly once
\* and does not call it again, the table stays loaded and the page keeps its
\* button, so a later question is asked and answered; the client itself,
\* built with its default max_retries, sends a request that met a
\* connection error or an error status again, up to 2 more times.
C7_ExternalFailure ==
    [][(pc = "button" /\ pressed) =>
          /\ IF Called1
             THEN /\ createCalls' = createCalls + 1
                  /\ requests' - requests \in 1..(1 + max_retries)
             ELSE /\ createCalls' = createCalls
                  /\ requests' = requests
          /\ shown' = "ExternalCallError" =>
                /\ pc' = "idle"
                /\ buttonShown'
                /\ cache' = cache /\ cache # <<>>
                /\ extFailed' = extFailed + 1]_vars

C7_Witness ==
    /\ extFailed >= 1
    /\ shown = "Answer"
    /\ createCalls = 2
    /\ presses = 2

AllOffMissing ==
    /\ df # <<>>
    /\ Rows # <<>>
    /\ "off_rating" \in df[1].cols
    /\ \A i \in 1..Len(Rows) : Rows[i]["off_rating"] = NaN

\* C8, as stated: when every off_rating is missing, pace_offense_summary
\* returns no bucket rows and the context says so.
C8_Original ==
    (context # <<>> /\ AllOffMissing) =>
        context[1].pace = [text |-> "Empty DataFrame", rows |-> <<>>]

\* C8, amended: when every off_rating is missing, pace_offense_summary
\* returns no bucket with a count above 0: it is empty, and the context
\* holds "Empty DataFrame" under the pace heading, when minute_bucket came
\* with the file or the installed pandas groups by observed categories
\* only; otherwise it has one row per label, each with lineups 0 and missing
\* means, and the context holds those rows.
C8_NoPaceData ==
    (context # <<>> /\ AllOffMissing) =>
        /\ \A k \in 1..Len(context[1].pace.rows) :
              /\ context[1].pace.rows[k].lineups = 0
              /\ context[1].pace.rows[k].avg_pace = NaN
              /\ context[1].pace.rows[k].avg_off_rating = NaN
        /\ IF observed \/ ~df[1].categorical
           THEN context[1].pace = [text |-> "Empty DataFrame", rows |-> <<>>]
           ELSE /\ context[1].pace.text = "rows"
                /\ Len(context[1].pace.rows) = Len(labels)

C8_Witness ==
    /\ context # <<>>
    /\ AllOffMissing
    /\ Len(Rows) = 2
    /\ Rows[1]["pace"] # NaN
    /\ Rows[1]["minute_bucket"] # NoBucket
    /\ context[1].pace.text = "Empty DataFrame"

Idx(o) == [k \in 1..Len(o) |-> o[k].idx]

\* sort_values with a stable kind: equal net_rating in row order
stable_sorted(S) ==
    CHOOSE s \in Perms(S) :
        \A k \in 1..(Cardinality(S) - 1) :
            \/ Rows[s[k]]["net_rating"] > Rows[s[k + 1]]["net_rating"]
            \/ /\ Rows[s[k]]["net_rating"] = Rows[s[k + 1]]["net_rating"]
               /\ s[k] < s[k + 1]

\* C9, as stated: the result is the first n rows of the stable descending
\* sort: rows with equal net_rating keep their table order, also at the cut.
C9_Original ==
    Called =>
        Idx(out) = head(stable_sorted(qualifying(df[1], args[1].min_minutes)), args[1].n)

\* C9, amended: the result is the first n rows of a descending sort of the
\* qualifying rows: it has min(n, number of qualifying rows) different rows,
\* and no qualifying row left out has a higher net_rating than a returned
\* one; the order of rows with equal net_rating, and which of them survive
\* the cut, is not fixed by the table order (the sort is not a stable one).
C9_TopN ==
    Called =>
        LET q == qualifying(df[1], args[1].min_minutes)
        IN  /\ Len(out) = Min(args[1].n, Cardinality(q))
            /\ \A k \in 1..Len(out) : out[k].idx \in q
            /\ \A k, l \in 1..Len(out) : k # l => out[k].idx # out[l].idx
            /\ \A i \in q \ {out[k].idx : k \in 1..Len(out)} :
                  \A k \in 1..Len(out) :
                      Rows[i]["net_rating"] <= Rows[out[k].idx]["net_rating"]

C9_Witness ==
    /\ Called
    /\ args[1].n = 1
    /\ Len(out) = 1
    /\ Len(Rows) = 3
    /\ qualifying(df[1], args[1].min_minutes) = {1, 2, 3}
    /\ Rows[1]["net_rating"] < Rows[2]["net_rating"]
    /\ Rows[2]["net_rating"] = Rows[3]["net_rating"]
    /\ out[1].idx = 3

\* C10: once the table is loaded no step changes it, nor the stored copy:
\* the summaries, the preview with its rounding loop and ask leave every row
\* and column of df as they were, so the context that an earlier ask
\* assembled is still what the summaries give on the table.
C10_TableUnchanged ==
    [][/\ df # <<>> => (df' = df /\ cache' = cache)
       /\ context' # <<>> =>
             Return(context'[1]) \in context_of(df'[1], observed')]_vars

C10_Witness ==
    /\ context # <<>>
    /\ shown = "Answer"
    /\ Len(context[1].topidx) = 1
    /\ Rows[context[1].topidx[1]]["min"] = 150004
    /\ context[1].top.rows[1]["min"] = 150000

====
